---- MODULE Spec2Model ----
(***************************************************************************)
(* The incremental reader of src/parse.c: an explicit stack of parse       *)
(* frames (Root, Form, String, Token), the per-byte dispatcher and the     *)
(* feed function gst_parse_cstring, with the token classifier and the      *)
(* numeric literal decoder.                                                *)
(*                                                                         *)
(* Bytes are their ASCII codes.  A C string argument is the sequence of    *)
(* its bytes before the terminating NUL.  A GstValue is a record with one  *)
(* field per member of the union, so that values of different types can be *)
(* compared; a Number is the exact decimal <<m, e>> = m * 10^e (m not      *)
(* divisible by 10) that the double of the source approximates.            *)
(***************************************************************************)
EXTENDS Integers, Sequences, FiniteSets, TLC

VARIABLES
    p,          \* the GstParser object
    fed,        \* every byte passed to gst_parse_cstring so far, in order
    total,      \* the sum of the values gst_parse_cstring has returned
    firstRun,   \* TRUE until a call is made on a parser that is not Pending
    room        \* how many more bytes the caller will pass

vars == <<p, fed, total, firstRun, room>>

(***************************************************************************)
(* Bounds of the model.                                                    *)
(***************************************************************************)
MaxInput == 4       \* bytes passed to one parser under Spec
MaxChunk == 2       \* longest string passed in one call
MaxPieces == 2      \* pieces a token of SpecToken is made of

(***************************************************************************)
(* ASCII codes of the bytes the model names.                               *)
(***************************************************************************)
chr == [ tab |-> 9, lf |-> 10, ff |-> 12, cr |-> 13, nul |-> 0,
         space |-> 32, bang |-> 33, dquote |-> 34, hash |-> 35, amp |-> 38,
         squote |-> 39, lparen |-> 40, rparen |-> 41, star |-> 42,
         plus |-> 43, comma |-> 44, minus |-> 45, dot |-> 46, slash |-> 47,
         d0 |-> 48, d1 |-> 49, d9 |-> 57, colon |-> 58, lt |-> 60, at |-> 64,
         A |-> 65, E |-> 69, Z |-> 90, lbracket |-> 91, backslash |-> 92,
         rbracket |-> 93, caret |-> 94, underscore |-> 95,
         a |-> 97, e |-> 101, f |-> 102, i |-> 105, l |-> 108, n |-> 110,
         r |-> 114, s |-> 115, t |-> 116, u |-> 117, x |-> 120, z |-> 122,
         lbrace |-> 123, rbrace |-> 125 ]

\* The C string constants of the source, as byte sequences.
str_nil == <<chr.n, chr.i, chr.l>>
str_false == <<chr.f, chr.a, chr.l, chr.s, chr.e>>
str_true == <<chr.t, chr.r, chr.u, chr.e>>
str_array == <<chr.a, chr.r, chr.r, chr.a, 121>>
str_obj == <<111, 98, 106>>
str_quote == <<113, chr.u, 111, chr.t, chr.e>>

UNEXPECTED_CLOSING_DELIM == "Unexpected closing delimiter"

(***************************************************************************)
(* GstValue.                                                               *)
(***************************************************************************)
GstNil == [type |-> "GST_NIL", boolean |-> 0, number |-> <<0, 0>>,
           string |-> <<>>, array |-> <<>>]
GstBoolean(b) == [GstNil EXCEPT !.type = "GST_BOOLEAN", !.boolean = b]
GstNumber(n) == [GstNil EXCEPT !.type = "GST_NUMBER", !.number = n]
GstString(s) == [GstNil EXCEPT !.type = "GST_STRING", !.string = s]
GstArray(a) == [GstNil EXCEPT !.type = "GST_ARRAY", !.array = a]

\* gst_load_cstring: the string value of a C string constant.
gst_load_cstring(s) == GstString(s)

(***************************************************************************)
(* GstParseState: one frame of the parse stack.  The members of the union  *)
(* are kept side by side; the type says which of them the code reads.      *)
(***************************************************************************)
NoFrame == [type |-> "PTYPE_ROOT", endDelimiter |-> 0, array |-> <<>>,
            buffer |-> <<>>, state |-> "STRING_STATE_BASE"]

\* What freshly allocated, never written frame storage can hold.
Uninit ==
    { NoFrame,
      [NoFrame EXCEPT !.type = "PTYPE_FORM", !.endDelimiter = chr.rparen],
      [NoFrame EXCEPT !.type = "PTYPE_FORM", !.endDelimiter = chr.rbracket],
      [NoFrame EXCEPT !.type = "PTYPE_TOKEN"],
      [NoFrame EXCEPT !.type = "PTYPE_STRING"] }

\* p_error(p, e)
p_error(q, e) == [q EXCEPT !.error = e, !.status = "GST_PARSER_ERROR"]

\* parser_peek: the index of the top frame in q.data, 0 for NULL.
parser_peek(q) ==
    IF q.count = 0
    THEN [p |-> p_error(q, "parser stack underflow"), top |-> 0]
    ELSE [p |-> q, top |-> q.count]

\* parser_pop
parser_pop(q) ==
    IF q.count = 0
    THEN p_error(q, "parser stack underflow")
    ELSE [q EXCEPT !.count = q.count - 1,
                   !.data = SubSeq(q.data, 1, q.count - 1)]

\* A form that starts without its leading "array" or "obj".
form_items_unmarked(character) == <<>>

\* The items a new form starts with (parser_push, case PTYPE_FORM).
form_items(character) ==
    CASE character = chr.lbracket -> <<gst_load_cstring(str_array)>>
      [] character = chr.lbrace -> <<gst_load_cstring(str_obj)>>
      [] OTHER -> <<>>

\* parser_push: when count >= cap the storage is replaced by a new block
\* (gst_alloc of 2 * count, a byte count) and the frames are not copied to
\* it; junk is what the block holds, and every frame under the new top
\* reads as junk from then on.  The new top frame keeps whatever its slot
\* held except for the members the switch writes.
parser_push(q, type, character, junk) ==
    LET old == IF q.count >= q.cap
               THEN [k \in 1..q.count |-> junk]
               ELSE q.data
        cap == IF q.count >= q.cap THEN 2 * q.count ELSE q.cap
        slot == IF q.count >= q.cap THEN junk ELSE NoFrame
        top == CASE type = "PTYPE_ROOT" ->
                      [slot EXCEPT !.type = type]
                 [] type = "PTYPE_STRING" ->
                      [slot EXCEPT !.type = type,
                                   !.state = "STRING_STATE_BASE",
                                   !.buffer = <<>>]
                 [] type = "PTYPE_TOKEN" ->
                      [slot EXCEPT !.type = type, !.buffer = <<>>]
                 [] type = "PTYPE_FORM" ->
                      [slot EXCEPT
                         !.type = type,
                         !.endDelimiter =
                            CASE character = chr.lparen -> chr.rparen
                              [] character = chr.lbracket -> chr.rbracket
                              [] character = chr.lbrace -> chr.rbrace
                              [] OTHER -> @,
                         !.array = form_items(character)]
    IN  [q EXCEPT !.data = Append(old, top),
                  !.cap = cap,
                  !.count = q.count + 1]

\* parser_append
parser_append(q, x) ==
    LET pk == parser_peek(q)
        top == pk.p.data[pk.top]
    IN  IF pk.top = 0 THEN pk.p
        ELSE CASE top.type = "PTYPE_ROOT" ->
                    [q EXCEPT !.value = x, !.status = "GST_PARSER_FULL"]
               [] top.type = "PTYPE_FORM" ->
                    [q EXCEPT !.data[pk.top].array = Append(@, x)]
               [] OTHER -> p_error(q, "Expected container type.")

\* is_whitespace
is_whitespace(c) ==
    c = chr.space \/ c = chr.tab \/ c = chr.lf \/ c = chr.cr
        \/ c = chr.nul \/ c = chr.comma

\* A symbol class whose range '#'..'&' reaches one byte further, to '\''.
is_symbol_char_wide(c) ==
    \/ c >= chr.a /\ c <= chr.z
    \/ c >= chr.A /\ c <= chr.Z
    \/ c >= chr.d0 /\ c <= chr.colon
    \/ c >= chr.lt /\ c <= chr.at
    \/ c >= chr.star /\ c <= chr.slash
    \/ c >= chr.hash /\ c <= chr.squote
    \/ c = chr.underscore
    \/ c = chr.caret
    \/ c = chr.bang

\* is_symbol_char
is_symbol_char(c) ==
    \/ c >= chr.a /\ c <= chr.z
    \/ c >= chr.A /\ c <= chr.Z
    \/ c >= chr.d0 /\ c <= chr.colon
    \/ c >= chr.lt /\ c <= chr.at
    \/ c >= chr.star /\ c <= chr.slash
    \/ c >= chr.hash /\ c <= chr.amp
    \/ c = chr.underscore
    \/ c = chr.caret
    \/ c = chr.bang

(***************************************************************************)
(* Numbers.  Decimal(m, e) is the number m * 10^e in its unique form, so   *)
(* that equal numbers are equal values; -0 and 0 are the same number.      *)
(***************************************************************************)
RECURSIVE Pow10(_)
Pow10(k) == IF k = 0 THEN 1 ELSE 10 * Pow10(k - 1)

RECURSIVE Decimal(_, _)
Decimal(m, e) ==
    IF m = 0 THEN <<0, 0>>
    ELSE IF m % 10 = 0 THEN Decimal(m \div 10, e + 1)
    ELSE <<m, e>>

\* The integer a Decimal holding an integer converts to (double to int).
ToInt(d) == d[1] * Pow10(d[2])

\* exp10: an integer power of 10 by repeated squaring.  The result is
\* given by its decimal exponent: exp10(k) = j stands for the double 10^j.
RECURSIVE exp10(_), exp10_square(_, _, _)
exp10_square(result, currentPower, power) ==
    IF currentPower * 2 <= power
    THEN exp10_square(result + result, currentPower * 2, power)
    ELSE <<result, currentPower>>

exp10(power) ==
    IF power = 0 THEN 0
    ELSE IF power > 0
    THEN LET sq == exp10_square(1, 1, power)
         IN  sq[1] + exp10(power - sq[2])
    ELSE 0 - exp10(0 - power)

\* read_number over the bytes [string, end); forceInt is the mode of the
\* exponent.  accum is n / 10^s; place is 1 when k = 0 and 10^-k otherwise.
\* The result is [ok, ret]; ret is meaningful when ok.
RECURSIVE read_number(_, _), read_number_loop(_, _, _, _, _, _, _)
read_number_loop(string, j, forceInt, sign, n, s, k) ==
    IF j > Len(string)
    THEN [ok |-> TRUE, ret |-> Decimal(sign * n, 0 - s)]
    ELSE LET c == string[j] IN
         IF c = chr.dot /\ ~forceInt
         THEN read_number_loop(string, j + 1, forceInt, sign, n, s, 1)
         ELSE IF ~forceInt /\ (c = chr.e \/ c = chr.E)
         THEN IF j + 1 > Len(string)
              THEN [ok |-> FALSE, ret |-> <<0, 0>>]
              ELSE LET ex == read_number(
                                SubSeq(string, j + 1, Len(string)), TRUE)
                   IN  IF ~ex.ok
                       THEN [ok |-> FALSE, ret |-> <<0, 0>>]
                       ELSE [ok |-> TRUE,
                             ret |-> Decimal(sign * n,
                                             exp10(ToInt(ex.ret)) - s)]
         ELSE IF c < chr.d0 \/ c > chr.d9
         THEN [ok |-> FALSE, ret |-> <<0, 0>>]
         ELSE LET x == c - chr.d0 IN
              IF k >= 1
              THEN \* accum += x * place; place *= 0.1
                   IF k <= s
                   THEN read_number_loop(string, j + 1, forceInt, sign,
                                         n + x * Pow10(s - k), s, k + 1)
                   ELSE read_number_loop(string, j + 1, forceInt, sign,
                                         n * Pow10(k - s) + x, k, k + 1)
              ELSE \* accum *= 10; accum += x
                   read_number_loop(string, j + 1, forceInt, sign,
                                    n * 10 + x, s, k)

read_number(string, forceInt) ==
    LET signed == Len(string) > 0
                    /\ (string[1] = chr.minus \/ string[1] = chr.plus)
        sign == IF Len(string) > 0 /\ string[1] = chr.minus THEN 0 - 1 ELSE 1
        start == IF signed THEN 2 ELSE 1
    IN  IF start > Len(string)
        THEN [ok |-> FALSE, ret |-> <<0, 0>>]
        ELSE read_number_loop(string, start, forceInt, sign, 0, 0, 0)

\* check_str_const: ref against the bytes [start, end).
RECURSIVE check_str_const_loop(_, _, _)
check_str_const_loop(ref, string, j) ==
    IF j <= Len(ref) /\ j <= Len(string)
    THEN IF ref[j] # string[j] THEN FALSE
         ELSE check_str_const_loop(ref, string, j + 1)
    ELSE j > Len(ref) /\ j > Len(string)

\* A comparison that stops at the end of ref: a prefix matches.
check_str_const_prefix(ref, string) ==
    \A j \in 1..Len(ref) : j <= Len(string) /\ ref[j] = string[j]

check_str_const(ref, string) == check_str_const_loop(ref, string, 1)

\* build_token: [p, x], the parser (its error and status may be set) and
\* the value built from the bytes of the token buffer.
build_token(q, buf) ==
    LET number == read_number(buf, FALSE) IN
    IF number.ok
    THEN [p |-> q, x |-> GstNumber(number.ret)]
    ELSE IF check_str_const(str_nil, buf)
    THEN [p |-> q, x |-> GstNil]
    ELSE IF check_str_const(str_false, buf)
    THEN [p |-> q, x |-> GstBoolean(0)]
    ELSE IF check_str_const(str_true, buf)
    THEN [p |-> q, x |-> GstBoolean(1)]
    ELSE IF Len(buf) > 0 /\ buf[1] >= chr.d0 /\ buf[1] <= chr.d9
    THEN [p |-> p_error(q, "Symbols cannot start with digits."),
          x |-> GstNil]
    ELSE [p |-> q, x |-> GstString(buf)]

IsCloser(c) == c = chr.rparen \/ c = chr.rbracket \/ c = chr.rbrace

\* The handlers return [p, done]: the parser after the call and the
\* handler's return value (1: the byte is consumed).

\* A token that consumes the byte that ends it, whatever the byte.
token_done_always(c) == TRUE

\* A token that never consumes the byte that ends it.
token_done_never(c) == FALSE

\* The return value of token_state when the byte ends the token: the byte
\* is consumed unless it is a closing delimiter.
token_done(c) == ~IsCloser(c)

\* token_state
token_state(q, c) ==
    LET top == parser_peek(q).top
        buf == q.data[top].buffer
    IN  IF is_whitespace(c) \/ IsCloser(c)
        THEN LET popped == parser_pop(q)
                 built == build_token(popped, buf)
             IN  [p |-> parser_append(built.p, built.x),
                  done |-> token_done(c)]
        ELSE IF is_symbol_char(c)
        THEN [p |-> [q EXCEPT !.data[top].buffer = Append(@, c)],
              done |-> TRUE]
        ELSE [p |-> p_error(q, "Expected symbol character."), done |-> TRUE]

\* A string literal that yields the bare string.
quote_form_bare(buffer) == GstString(buffer)

\* The value of a finished string literal (string_state, case '"').
quote_form(buffer) ==
    LET x == GstString(buffer)
    IN  GstArray(<<gst_load_cstring(str_quote), x>>)

\* An escape switch without its default case: every byte passes.
escape_known_any(c) == TRUE

\* The cases of the escape switch of string_state.
escape_known(c) ==
    c \in {chr.n, chr.r, chr.t, chr.f, chr.d0, chr.dquote, chr.squote, chr.z}

\* string_state
string_state(q, c) ==
    LET top == parser_peek(q).top
        frame == q.data[top]
    IN  CASE frame.state = "STRING_STATE_BASE" ->
               IF c = chr.backslash
               THEN [p |-> [q EXCEPT !.data[top].state = "STRING_STATE_ESCAPE"],
                     done |-> TRUE]
               ELSE IF c = chr.dquote
               THEN LET array == quote_form(frame.buffer)
                    IN  [p |-> parser_append(parser_pop(q), array),
                         done |-> TRUE]
               ELSE [p |-> [q EXCEPT !.data[top].buffer = Append(@, c)],
                     done |-> TRUE]
          [] frame.state = "STRING_STATE_ESCAPE" ->
               LET known == escape_known(c)
                   next == CASE c = chr.n -> chr.lf
                             [] c = chr.r -> chr.cr
                             [] c = chr.t -> chr.tab
                             [] c = chr.f -> chr.ff
                             [] c = chr.d0 -> chr.nul
                             [] c = chr.dquote -> chr.dquote
                             [] c = chr.squote -> chr.squote
                             [] c = chr.z -> chr.nul
                             [] OTHER -> c
               IN  IF ~known
                   THEN [p |-> p_error(q, "Unknown string escape sequence."),
                         done |-> TRUE]
                   ELSE [p |-> [q EXCEPT
                                  !.data[top].buffer = Append(@, next),
                                  !.data[top].state = "STRING_STATE_BASE"],
                         done |-> TRUE]
          [] OTHER -> \* STRING_STATE_ESCAPE_HEX, STRING_STATE_ESCAPE_UNICODE
               [p |-> q, done |-> TRUE]

\* root_state
root_state(q, c, junk) ==
    IF IsCloser(c)
    THEN [p |-> p_error(q, UNEXPECTED_CLOSING_DELIM), done |-> TRUE]
    ELSE IF c = chr.lparen \/ c = chr.lbracket \/ c = chr.lbrace
    THEN [p |-> parser_push(q, "PTYPE_FORM", c, junk), done |-> TRUE]
    ELSE IF c = chr.dquote
    THEN [p |-> parser_push(q, "PTYPE_STRING", c, junk), done |-> TRUE]
    ELSE IF is_whitespace(c)
    THEN [p |-> q, done |-> TRUE]
    ELSE IF is_symbol_char(c)
    THEN [p |-> parser_push(q, "PTYPE_TOKEN", c, junk), done |-> FALSE]
    ELSE [p |-> p_error(q, "Unexpected character."), done |-> TRUE]

\* A form that any closing delimiter closes.
closes_form_any(frame, c) == IsCloser(c)

\* The test of form_state: the byte is the closing delimiter of the form.
closes_form(frame, c) == c = frame.endDelimiter

\* form_state
form_state(q, c, junk) ==
    LET top == parser_peek(q).top
        frame == q.data[top]
    IN  IF closes_form(frame, c)
        THEN LET x == GstArray(frame.array)
             IN  [p |-> parser_append(parser_pop(q), x), done |-> TRUE]
        ELSE root_state(q, c, junk)

\* dispatch_char: the loop hands the byte to the handler of the top frame
\* until a handler returns 1 or the status is no longer Pending; then
\* ++p->index.  With an empty stack parser_peek returns NULL and top->type
\* reads through it: the process dies, status "SIGSEGV".
\* The switch of dispatch_char: the handler of the top frame's type.
frame_handler(q, c, junk) ==
    LET type == q.data[parser_peek(q).top].type
    IN  CASE type = "PTYPE_ROOT" -> root_state(q, c, junk)
          [] type = "PTYPE_TOKEN" -> token_state(q, c)
          [] type = "PTYPE_FORM" -> form_state(q, c, junk)
          [] type = "PTYPE_STRING" -> string_state(q, c)

RECURSIVE dispatch_loop(_, _, _, _)
dispatch_loop(q, c, done, junk) ==
    IF ~done /\ q.status = "GST_PARSER_PENDING"
    THEN LET pk == parser_peek(q) IN
         IF pk.top = 0
         THEN [p |-> [pk.p EXCEPT !.status = "SIGSEGV"], done |-> done]
         ELSE LET r == frame_handler(q, c, junk)
              IN  dispatch_loop(r.p, c, r.done, junk)
    ELSE [p |-> q, done |-> done]

\* A dispatcher that counts the byte only when a handler consumed it.
dispatch_char_uncounted(q, c, junk) ==
    LET r == dispatch_loop(q, c, FALSE, junk)
    IN  IF r.p.status = "SIGSEGV" \/ ~r.done THEN r
        ELSE [p |-> [r.p EXCEPT !.index = @ + 1], done |-> r.done]

dispatch_char(q, c, junk) ==
    LET r == dispatch_loop(q, c, FALSE, junk)
    IN  IF r.p.status = "SIGSEGV" THEN r
        ELSE [p |-> [r.p EXCEPT !.index = @ + 1], done |-> r.done]

\* A feed loop that does not count the byte on which the status left
\* Pending.
RECURSIVE gst_parse_cstring_late(_, _, _, _)
gst_parse_cstring_late(q, string, bytesRead, junk) ==
    IF q.status = "GST_PARSER_PENDING" /\ bytesRead < Len(string)
    THEN LET r == dispatch_char(q, string[bytesRead + 1], junk).p
         IN  IF r.status = "GST_PARSER_PENDING"
             THEN gst_parse_cstring_late(r, string, bytesRead + 1, junk)
             ELSE [p |-> r, bytesRead |-> bytesRead]
    ELSE [p |-> q, bytesRead |-> bytesRead]

\* gst_parse_cstring: [p, bytesRead].
RECURSIVE gst_parse_cstring_loop(_, _, _, _)
gst_parse_cstring_loop(q, string, bytesRead, junk) ==
    IF q.status = "GST_PARSER_PENDING" /\ bytesRead < Len(string)
    THEN gst_parse_cstring_loop(
             dispatch_char(q, string[bytesRead + 1], junk).p,
             string, bytesRead + 1, junk)
    ELSE [p |-> q, bytesRead |-> bytesRead]

\* A feed that starts every call on an emptied stack.
gst_parse_cstring_restart(q, string, junk) ==
    gst_parse_cstring_loop([q EXCEPT !.status = "GST_PARSER_PENDING",
                                     !.count = 1,
                                     !.data = SubSeq(q.data, 1, 1)],
                           string, 0, junk)

gst_parse_cstring(q, string, junk) ==
    gst_parse_cstring_loop([q EXCEPT !.status = "GST_PARSER_PENDING"],
                           string, 0, junk)

\* gst_parser: the parser after initialization.
gst_parser ==
    parser_push([data |-> <<>>, count |-> 0, cap |-> 10, index |-> 0,
                 error |-> "NULL", status |-> "GST_PARSER_PENDING",
                 value |-> GstNil],
                "PTYPE_ROOT", chr.space, NoFrame)

(***************************************************************************)
(* The caller: it passes strings to gst_parse_cstring, one call after      *)
(* another, on one parser.                                                 *)
(***************************************************************************)
Alphabet ==
    { chr.lparen, chr.rparen, chr.lbracket, chr.rbracket, chr.lbrace,
      chr.rbrace, chr.dquote, chr.backslash, chr.space, chr.comma,
      chr.a, chr.d0 }

\* The byte sequences over S of length at most n.
RECURSIVE Strings(_, _)
Strings(S, n) ==
    IF n = 0 THEN {<<>>}
    ELSE LET shorter == Strings(S, n - 1)
         IN  shorter \cup { Append(s, b) : s \in { t \in shorter : Len(t) = n - 1 },
                                           b \in S }

Chunks == Strings(Alphabet, MaxChunk)

\* What a block allocated during a call that passes n bytes can hold: it
\* matters only when a push can find count >= cap.
JunkFor(q, n) == IF q.count + n > q.cap THEN Uninit ELSE {NoFrame}

TypeOK ==
    /\ p.status \in {"GST_PARSER_PENDING", "GST_PARSER_FULL",
                     "GST_PARSER_ERROR", "SIGSEGV"}
    /\ p.count = Len(p.data)
    /\ total \in Nat
    /\ firstRun \in BOOLEAN
    /\ room \in Nat

Init ==
    /\ p = gst_parser
    /\ fed = <<>>
    /\ total = 0
    /\ firstRun = TRUE
    /\ room = MaxInput

\* The strings the caller passes to a parser that is no longer Pending.
Again == { <<chr.a>>, <<chr.rparen>> }

\* One call gst_parse_cstring(&p, string) on a parser that is Pending.
Feed(string) ==
    /\ Len(string) <= room
    /\ firstRun
    /\ p.status = "GST_PARSER_PENDING"
    /\ \E junk \in JunkFor(p, Len(string)) :
         LET r == gst_parse_cstring(p, string, junk)
         IN  /\ p' = r.p
             /\ total' = total + r.bytesRead
    /\ fed' = fed \o string
    /\ room' = room - Len(string)
    /\ UNCHANGED firstRun

\* One more call, on a parser whose status is Complete or Error: the
\* caller is not supposed to make it, and the code does not refuse it.
FeedAgain(string) ==
    /\ Len(string) <= room
    /\ firstRun
    /\ p.status \in {"GST_PARSER_FULL", "GST_PARSER_ERROR"}
    /\ \E junk \in JunkFor(p, Len(string)) :
         LET r == gst_parse_cstring(p, string, junk)
         IN  /\ p' = r.p
             /\ total' = total + r.bytesRead
    /\ fed' = fed \o string
    /\ room' = room - Len(string)
    /\ firstRun' = FALSE

Next ==
    \/ \E string \in Chunks : Feed(string)
    \/ \E string \in Again : FeedAgain(string)

Spec == Init /\ [][Next]_vars

(***************************************************************************)
(* Token classification on its own: the parser has just been fed a token,  *)
(* at the root or inside a form, and the caller passes one more byte.      *)
(***************************************************************************)
Pieces ==
    { str_nil, str_true, str_false, <<chr.t, chr.r, chr.u>>, <<chr.x>>,
      <<chr.d1>>, <<chr.dot>>, <<chr.minus>>, <<chr.plus>>, <<chr.e>> }

\* The tokens made of 1..n pieces.
RECURSIVE Tokens(_)
Tokens(n) ==
    IF n = 1 THEN Pieces
    ELSE Tokens(n - 1) \cup { t \o piece : t \in Tokens(n - 1), piece \in Pieces }

Openings == { <<>>, <<chr.lparen>> }

InitToken ==
    \E opening \in Openings, token \in Tokens(MaxPieces) :
        LET r == gst_parse_cstring(gst_parser, opening \o token, NoFrame)
        IN  /\ p = r.p
            /\ fed = opening \o token
            /\ total = r.bytesRead
            /\ firstRun = TRUE
            /\ room = 1

NextToken == \E string \in Chunks : Feed(string)

SpecToken == InitToken /\ [][NextToken]_vars

(***************************************************************************)
(* Claims.                                                                 *)
(***************************************************************************)
Pending == p.status = "GST_PARSER_PENDING"
Complete == p.status = "GST_PARSER_FULL"
Failed == p.status = "GST_PARSER_ERROR"

\* The same bytes passed to a fresh parser in one call.
OneCall == gst_parse_cstring(gst_parser, fed, NoFrame)

\* C1: chunk-boundary invariance.  However the bytes fed so far were split
\* into calls (the feeding stops with the first call that leaves the
\* status not Pending), the parser ends with the status, the value when
\* Complete, the error message when Error, the index and the sum of the
\* returned counts that one call with all the bytes gives on a fresh parser.
ChunkInvariance ==
    firstRun =>
        /\ p.status = OneCall.p.status
        /\ (Complete => p.value = OneCall.p.value)
        /\ (Failed => p.error = OneCall.p.error)
        /\ total = OneCall.bytesRead
        /\ p.index = OneCall.p.index

\* A value that took more bytes than one call can pass: it was completed
\* across calls, from a token or a form left open by an earlier call.
ChunkInvarianceWitness ==
    /\ firstRun
    /\ Complete
    /\ total > MaxChunk
    /\ p.value.type = "GST_ARRAY"
    /\ Len(p.value.array) = 1

(***************************************************************************)
(* Steps of one byte: a call that passes a single byte to a parser that is *)
(* Pending and has only been fed while Pending.                            *)
(***************************************************************************)
Top == p.data[p.count]
Byte == fed'[Len(fed')]
ByteStep == firstRun /\ Pending /\ p.count >= 1 /\ Len(fed') = Len(fed) + 1

IsDigit(c) == c >= chr.d0 /\ c <= chr.d9
IsTerminator(c) == is_whitespace(c) \/ IsCloser(c)

\* C2: a finished token that starts with a digit and does not decode as a
\* number leaves the parser in status Error with the message "Symbols
\* cannot start with digits.", whatever frame the token was in.
DigitTokenFails ==
    [][ ( /\ ByteStep
          /\ Top.type = "PTYPE_TOKEN"
          /\ IsTerminator(Byte)
          /\ IsDigit(Top.buffer[1])
          /\ ~read_number(Top.buffer, FALSE).ok )
        => ( /\ p'.status = "GST_PARSER_ERROR"
             /\ p'.error = "Symbols cannot start with digits." ) ]_vars

\* C3: Error and Complete are terminal.  A call with a non-empty string on
\* a parser whose status is Error or Complete leaves the parser as it is
\* and returns 0.
TerminalIsFinal ==
    [][ ((Failed \/ Complete) /\ fed' # fed)
        => (p' = p /\ total' = total) ]_vars

\* C4: the error message is set only when the status is Error; a parser
\* that is Complete has none.  Stated for parsers that were only fed while
\* Pending.
ErrorOnlyWhenFailed ==
    (firstRun /\ p.error # "NULL") => Failed

(***************************************************************************)
(* The lexical extent of the first value of a byte sequence, read off the  *)
(* grammar: ValueEnd(s) is the position of the last byte of the value      *)
(* that follows the leading whitespace of s, 0 when s holds no such byte.  *)
(***************************************************************************)
RECURSIVE LeadingBlank(_, _)
LeadingBlank(s, j) ==
    IF j <= Len(s) /\ is_whitespace(s[j]) THEN LeadingBlank(s, j + 1)
    ELSE j - 1

RECURSIVE TokenExtent(_, _)
TokenExtent(s, j) ==
    IF j + 1 <= Len(s) /\ ~IsTerminator(s[j + 1]) THEN TokenExtent(s, j + 1)
    ELSE j

\* From position j inside a string literal (escaped: after a backslash).
RECURSIVE StringExtent(_, _, _)
StringExtent(s, j, escaped) ==
    IF j > Len(s) THEN 0
    ELSE IF escaped THEN StringExtent(s, j + 1, FALSE)
    ELSE IF s[j] = chr.backslash THEN StringExtent(s, j + 1, TRUE)
    ELSE IF s[j] = chr.dquote THEN j
    ELSE StringExtent(s, j + 1, FALSE)

\* From position j inside depth open forms.
RECURSIVE FormExtent(_, _, _)
FormExtent(s, j, depth) ==
    IF j > Len(s) THEN 0
    ELSE IF s[j] = chr.dquote
    THEN LET close == StringExtent(s, j + 1, FALSE)
         IN  IF close = 0 THEN 0 ELSE FormExtent(s, close + 1, depth)
    ELSE IF s[j] \in {chr.lparen, chr.lbracket, chr.lbrace}
    THEN FormExtent(s, j + 1, depth + 1)
    ELSE IF IsCloser(s[j])
    THEN IF depth = 1 THEN j ELSE FormExtent(s, j + 1, depth - 1)
    ELSE FormExtent(s, j + 1, depth)

ValueStart(s) == LeadingBlank(s, 1) + 1

ValueEnd(s) ==
    LET j == ValueStart(s) IN
    IF j > Len(s) THEN 0
    ELSE IF s[j] = chr.dquote THEN StringExtent(s, j + 1, FALSE)
    ELSE IF s[j] \in {chr.lparen, chr.lbracket, chr.lbrace}
    THEN FormExtent(s, j + 1, 1)
    ELSE TokenExtent(s, j)

\* The value is a bare token: its first byte is neither '"' nor an opener.
StartsToken(s) ==
    /\ ValueStart(s) <= Len(s)
    /\ s[ValueStart(s)] \notin {chr.dquote, chr.lparen, chr.lbracket, chr.lbrace}

\* C5 as stated: when the feed of a fresh parser ends Complete, the bytes
\* consumed end with the last byte of the value; no byte after the value
\* is consumed and none is needed.
ConsumedIsValueExtent ==
    (firstRun /\ Complete) =>
        (p.index = ValueEnd(fed) /\ total = p.index)

\* C5 as amended: that holds when the value is a form or a string literal.
\* A bare token needs one byte after it, whitespace, a comma or a closing
\* delimiter; that byte is consumed, and no byte after it.
ConsumedIsExtentOrTerminator ==
    (firstRun /\ Complete) =>
        /\ total = p.index
        /\ IF StartsToken(fed)
           THEN /\ p.index = ValueEnd(fed) + 1
                /\ IsTerminator(fed[p.index])
           ELSE /\ p.index = ValueEnd(fed)
                /\ p.value.type = "GST_ARRAY"

\* A token at the root ended by a closing delimiter, with a byte after it
\* left unconsumed.
ConsumedWitness ==
    /\ firstRun
    /\ Complete
    /\ StartsToken(fed)
    /\ IsCloser(fed[p.index])
    /\ Len(fed) > p.index

(***************************************************************************)
(* What a step of one byte does to the stack.                              *)
(***************************************************************************)
IsOpener(c) == c = chr.lparen \/ c = chr.lbracket \/ c = chr.lbrace

Min(a, b) == IF a <= b THEN a ELSE b

\* The step leaves the frames 1..j on the stack and hands the finished
\* value x to frame j: the Root frame makes it the parser's value and the
\* parse Complete, a Form frame appends it to its items.
Receives(j, x) ==
    /\ p'.count = j
    /\ IF p.data[j].type = "PTYPE_ROOT"
       THEN /\ p'.status = "GST_PARSER_FULL"
            /\ p'.value = x
            /\ p'.data = SubSeq(p.data, 1, j)
       ELSE /\ p'.status = "GST_PARSER_PENDING"
            /\ p'.data = [SubSeq(p.data, 1, j) EXCEPT ![j].array = Append(@, x)]

\* The step pushes the frame f and leaves the frames under it as they were.
Pushes(f) ==
    /\ p'.count = p.count + 1
    /\ p'.data = Append(p.data, f)
    /\ p'.status = "GST_PARSER_PENDING"

\* The byte reaches the Root frame or a Form frame that it does not close.
AtValueStart ==
    /\ ByteStep
    /\ \/ Top.type = "PTYPE_ROOT"
       \/ Top.type = "PTYPE_FORM" /\ Byte # Top.endDelimiter

FormOpened ==
    (AtValueStart /\ IsOpener(Byte)) =>
        Pushes([NoFrame EXCEPT
                  !.type = "PTYPE_FORM",
                  !.endDelimiter =
                     CASE Byte = chr.lparen -> chr.rparen
                       [] Byte = chr.lbracket -> chr.rbracket
                       [] Byte = chr.lbrace -> chr.rbrace,
                  !.array =
                     CASE Byte = chr.lparen -> <<>>
                       [] Byte = chr.lbracket -> <<GstString(str_array)>>
                       [] Byte = chr.lbrace -> <<GstString(str_obj)>>])

FormClosed ==
    (ByteStep /\ Top.type = "PTYPE_FORM" /\ Byte = Top.endDelimiter) =>
        Receives(p.count - 1, GstArray(Top.array))

\* The closing delimiter arrives while the last item is still a token.
FormClosedAfterToken ==
    ( /\ ByteStep
      /\ Top.type = "PTYPE_TOKEN"
      /\ p.count >= 3
      /\ Byte = p.data[p.count - 1].endDelimiter
      /\ build_token(p, Top.buffer).p.error = p.error )
    => Receives(p.count - 2,
                GstArray(Append(p.data[p.count - 1].array,
                                build_token(p, Top.buffer).x)))

\* A form that stays open keeps its closing delimiter and its items, in
\* their order; only the form on top after the step can have got one more
\* item, at the end.
FormsKeepOrder ==
    ByteStep =>
        \A j \in 1..Min(p.count, p'.count) :
            p.data[j].type = "PTYPE_FORM" =>
                /\ p'.data[j].type = "PTYPE_FORM"
                /\ p'.data[j].endDelimiter = p.data[j].endDelimiter
                /\ \/ p'.data[j].array = p.data[j].array
                   \/ /\ j = p'.count
                      /\ Len(p'.data[j].array) = Len(p.data[j].array) + 1
                      /\ SubSeq(p'.data[j].array, 1, Len(p.data[j].array))
                            = p.data[j].array

\* C6: a form closed by its matching delimiter yields the Sequence of the
\* values completed between its opener and its closer, in input order,
\* after the string "array" for '[', "obj" for '{' and nothing for '(';
\* a nested form is one item of the enclosing form, at the place where it
\* closed.
FormYieldsItsItems ==
    [][FormOpened /\ FormClosed /\ FormClosedAfterToken /\ FormsKeepOrder]_vars

\* "[()]" read to the end: the sentinel, then the nested empty form.
FormYieldsWitness ==
    /\ firstRun
    /\ Complete
    /\ p.value = GstArray(<<GstString(str_array), GstArray(<<>>)>>)

\* The byte each escape stands for.
Escapes ==
    (chr.n :> chr.lf) @@ (chr.r :> chr.cr) @@ (chr.t :> chr.tab)
        @@ (chr.f :> chr.ff) @@ (chr.d0 :> chr.nul)
        @@ (chr.dquote :> chr.dquote) @@ (chr.squote :> chr.squote)
        @@ (chr.z :> chr.nul)

InString(state) ==
    ByteStep /\ Top.type = "PTYPE_STRING" /\ Top.state = state

StringOpened ==
    (AtValueStart /\ Byte = chr.dquote) =>
        Pushes([NoFrame EXCEPT !.type = "PTYPE_STRING"])

StringKeepsByte ==
    ( /\ InString("STRING_STATE_BASE")
      /\ Byte \notin {chr.backslash, chr.dquote} )
    => /\ p'.data = [p.data EXCEPT ![p.count].buffer = Append(@, Byte)]
       /\ p'.status = "GST_PARSER_PENDING"

StringStartsEscape ==
    (InString("STRING_STATE_BASE") /\ Byte = chr.backslash)
    => /\ p'.data = [p.data EXCEPT ![p.count].state = "STRING_STATE_ESCAPE"]
       /\ p'.status = "GST_PARSER_PENDING"

StringResolvesEscape ==
    (InString("STRING_STATE_ESCAPE") /\ Byte \in DOMAIN Escapes)
    => /\ p'.data = [p.data EXCEPT
                       ![p.count].buffer = Append(@, Escapes[Byte]),
                       ![p.count].state = "STRING_STATE_BASE"]
       /\ p'.status = "GST_PARSER_PENDING"

StringClosed ==
    (InString("STRING_STATE_BASE") /\ Byte = chr.dquote)
    => Receives(p.count - 1,
                GstArray(<<GstString(str_quote), GstString(Top.buffer)>>))

\* C7: a string literal ended by an unescaped '"' hands its parent frame
\* the 2-element Sequence ("quote", String of the accumulated bytes).  The
\* bytes between the quotes are kept as they are, whitespace, commas and
\* delimiters included; a backslash and the byte after it give the one
\* byte the escape stands for, and an escaped '"' does not end the literal.
StringYieldsQuoteForm ==
    [][ /\ StringOpened
        /\ StringKeepsByte
        /\ StringStartsEscape
        /\ StringResolvesEscape
        /\ StringClosed ]_vars

\* The literal "\0" read to the end: the escape gave the byte 0.
StringYieldsWitness ==
    /\ firstRun
    /\ Complete
    /\ p.value = GstArray(<<GstString(str_quote), GstString(<<chr.nul>>)>>)

(***************************************************************************)
(* Nesting, read off the consumed bytes: Nested(s, j, expect, ...) scans s *)
(* from j with the closing delimiters the open forms expect, innermost     *)
(* last, and skips the inside of string literals.  It is FALSE when a      *)
(* closer meets an open form it does not match, or a form is left open.    *)
(***************************************************************************)
RECURSIVE Nested(_, _, _, _, _)
Nested(s, j, expect, inString, escaped) ==
    IF j > Len(s) THEN expect = <<>>
    ELSE IF inString
    THEN IF escaped THEN Nested(s, j + 1, expect, TRUE, FALSE)
         ELSE IF s[j] = chr.backslash THEN Nested(s, j + 1, expect, TRUE, TRUE)
         ELSE IF s[j] = chr.dquote THEN Nested(s, j + 1, expect, FALSE, FALSE)
         ELSE Nested(s, j + 1, expect, TRUE, FALSE)
    ELSE IF s[j] = chr.dquote THEN Nested(s, j + 1, expect, TRUE, FALSE)
    ELSE IF s[j] = chr.lparen
    THEN Nested(s, j + 1, Append(expect, chr.rparen), FALSE, FALSE)
    ELSE IF s[j] = chr.lbracket
    THEN Nested(s, j + 1, Append(expect, chr.rbracket), FALSE, FALSE)
    ELSE IF s[j] = chr.lbrace
    THEN Nested(s, j + 1, Append(expect, chr.rbrace), FALSE, FALSE)
    ELSE IF IsCloser(s[j]) /\ expect # <<>>
    THEN /\ s[j] = expect[Len(expect)]
         /\ Nested(s, j + 1, SubSeq(expect, 1, Len(expect) - 1), FALSE, FALSE)
    ELSE Nested(s, j + 1, expect, FALSE, FALSE)

WellNested(s) == Nested(s, 1, <<>>, FALSE, FALSE)

CloserRejected ==
    ( /\ ByteStep
      /\ IsCloser(Byte)
      /\ \/ Top.type = "PTYPE_ROOT"
         \/ Top.type = "PTYPE_FORM" /\ Top.endDelimiter # Byte )
    => /\ p'.status = "GST_PARSER_ERROR"
       /\ p'.error = "Unexpected closing delimiter"

CompleteIsWellNested ==
    (firstRun /\ Complete) => WellNested(SubSeq(fed, 1, p.index))

\* C10: a closing delimiter that reaches the Root frame, or a Form frame
\* whose closing delimiter is another byte, sets status Error with
\* "Unexpected closing delimiter"; so a parse is Complete only when every
\* opener it consumed was closed by its matching closer, innermost first.
UnmatchedCloserFails ==
    [][CloserRejected]_vars /\ []CompleteIsWellNested

\* "(]" and the like: a closer refused by an open form of another kind.
UnmatchedCloserWitness ==
    /\ firstRun
    /\ Failed
    /\ p.error = "Unexpected closing delimiter"
    /\ Top.type = "PTYPE_FORM"
    /\ IsCloser(fed[p.index])
    /\ fed[p.index] # Top.endDelimiter

(***************************************************************************)
(* The end of a token: the byte that finishes it and the value built.      *)
(* The byte is whitespace or a comma, or a closing delimiter met by a      *)
(* token directly under the Root frame.                                    *)
(***************************************************************************)
TokenEnds ==
    /\ ByteStep
    /\ Top.type = "PTYPE_TOKEN"
    /\ is_whitespace(Byte) \/ (IsCloser(Byte) /\ p.count = 2)

\* The value the frame under the token received.
Built ==
    IF p.count = 2 THEN p'.value
    ELSE p'.data[p.count - 1].array[Len(p'.data[p.count - 1].array)]

Decodes(bytes) == read_number(bytes, FALSE).ok

\* C8: a finished token is a Number when its bytes decode as one; else Nil
\* when they are exactly "nil"; else Boolean false for exactly "false";
\* else Boolean true for exactly "true"; else an error when the first byte
\* is a digit; else the String of its bytes.  A token that only starts like
\* nil, true or false, or is only the start of one of them, is a String.
TokenClassified ==
    [][ TokenEnds =>
          LET bytes == Top.buffer IN
          IF Decodes(bytes)
          THEN Built = GstNumber(read_number(bytes, FALSE).ret)
                 /\ p'.error = p.error
          ELSE IF bytes = str_nil
          THEN Built = GstNil /\ p'.error = p.error
          ELSE IF bytes = str_false
          THEN Built = GstBoolean(0) /\ p'.error = p.error
          ELSE IF bytes = str_true
          THEN Built = GstBoolean(1) /\ p'.error = p.error
          ELSE IF IsDigit(bytes[1])
          THEN p'.error = "Symbols cannot start with digits."
          ELSE Built = GstString(bytes) /\ p'.error = p.error ]_vars

\* "truex" finished at the root: a String, not the Boolean true.
TokenClassifiedWitness ==
    /\ Complete
    /\ p.value = GstString(str_true \o <<chr.x>>)
    /\ p.error = "NULL"

\* The mantissa of a literal: its bytes after the sign, up to the exponent
\* marker.
RECURSIVE MantissaEnd(_, _)
MantissaEnd(bytes, j) ==
    IF j <= Len(bytes) /\ bytes[j] # chr.e /\ bytes[j] # chr.E
    THEN MantissaEnd(bytes, j + 1)
    ELSE j - 1

HasMantissaDigit(bytes) ==
    LET first == IF bytes[1] = chr.minus \/ bytes[1] = chr.plus THEN 2 ELSE 1
    IN  \E j \in first..MantissaEnd(bytes, first) : IsDigit(bytes[j])

\* C9: read_number does not accept bytes without a decimal digit in the
\* mantissa: a token that is only a sign, only '.', a sign and '.', or an
\* exponent with nothing before it does not become a Number.
NumberNeedsDigit ==
    [][ (TokenEnds /\ ~HasMantissaDigit(Top.buffer))
        => Built.type # "GST_NUMBER" ]_vars

(***************************************************************************)
(* A stack filled to its initial capacity: the parser has been fed as many *)
(* openers as leave count = cap, and the caller passes a few more bytes.   *)
(* The next push finds count >= cap.                                       *)
(***************************************************************************)
Fill(c) == [k \in 1..(gst_parser.cap - 1) |-> c]

InitDeep ==
    \E c \in {chr.lparen, chr.lbracket, chr.lbrace} :
        LET r == gst_parse_cstring(gst_parser, Fill(c), NoFrame)
        IN  /\ p = r.p
            /\ fed = Fill(c)
            /\ total = r.bytesRead
            /\ firstRun = TRUE
            /\ room = MaxChunk

SpecDeep == InitDeep /\ [][Next]_vars

\* C11: the stack invariant.  Whenever the status is Pending the stack is
\* not empty, its first frame is the Root frame and no other frame is a
\* Root frame, at every nesting depth, beyond the initial capacity too.
StackInvariant ==
    Pending =>
        /\ p.count >= 1
        /\ p.data[1].type = "PTYPE_ROOT"
        /\ \A j \in 2..p.count : p.data[j].type # "PTYPE_ROOT"

(***************************************************************************)
(* Allocation points.  Every call of a collaborator that can allocate      *)
(* (gst_alloc, gst_buffer, gst_array, gst_buffer_push, gst_array_push,     *)
(* gst_buffer_to_string, gst_load_cstring) is a point where a collection   *)
(* can run.  An accumulator is named by the frame that holds or held it,   *)
(* an object held in a local variable or a temporary by frame 0 and the    *)
(* name of the variable.  A point records the call, the objects the code   *)
(* uses at or after the call, and the objects the frames 1..count of the   *)
(* stack reach at that moment.                                             *)
(***************************************************************************)
FrameBuffer(k) == [frame |-> k, member |-> "buffer"]
FrameArray(k) == [frame |-> k, member |-> "array"]
Local(name) == [frame |-> 0, member |-> name]

\* The accumulators the frames on the stack hold.
Accumulators(q) ==
    { FrameBuffer(k) : k \in { j \in 1..q.count :
                                 q.data[j].type \in {"PTYPE_TOKEN",
                                                     "PTYPE_STRING"} } }
    \cup { FrameArray(k) : k \in { j \in 1..q.count :
                                     q.data[j].type = "PTYPE_FORM" } }

AllocPoint(call, held, q) ==
    [call |-> call, live |-> Accumulators(q) \cup held,
     rooted |-> Accumulators(q)]

\* parser_push: the growth of the storage, the accumulator of the new
\* frame (stored in the frame, which is already counted), the sentinel.
parser_push_allocs(q, type, character, junk) ==
    LET pushed == parser_push(q, type, character, junk)
        sentinel == character = chr.lbracket \/ character = chr.lbrace
    IN  (IF q.count >= q.cap THEN <<AllocPoint("gst_alloc", {}, q)>>
         ELSE <<>>)
        \o (CASE type = "PTYPE_ROOT" -> <<>>
              [] type \in {"PTYPE_STRING", "PTYPE_TOKEN"} ->
                   <<AllocPoint("gst_buffer", {}, pushed)>>
              [] type = "PTYPE_FORM" ->
                   <<AllocPoint("gst_array", {}, pushed)>>
                   \o (IF sentinel
                       THEN <<AllocPoint("gst_load_cstring", {}, pushed),
                              AllocPoint("gst_array_push",
                                         {Local("sentinel")}, pushed)>>
                       ELSE <<>>))

\* parser_append of the value x, which holds the objects in held.
parser_append_allocs(q, held) ==
    IF q.count > 0 /\ q.data[q.count].type = "PTYPE_FORM"
    THEN <<AllocPoint("gst_array_push", held, q)>>
    ELSE <<>>

\* token_state: buf is read from the top frame, the frame is popped, and
\* then build_token and parser_append run.
token_state_allocs(q, c) ==
    LET top == parser_peek(q).top
        buf == FrameBuffer(top)
    IN  IF is_whitespace(c) \/ IsCloser(c)
        THEN LET popped == parser_pop(q)
                 built == build_token(popped, q.data[top].buffer)
                 string == built.x.type = "GST_STRING"
             IN  (IF string
                  THEN <<AllocPoint("gst_buffer_to_string", {buf}, popped)>>
                  ELSE <<>>)
                 \o parser_append_allocs(built.p,
                                         IF string THEN {Local("x")} ELSE {})
        ELSE IF is_symbol_char(c)
        THEN <<AllocPoint("gst_buffer_push", {buf}, q)>>
        ELSE <<>>

\* string_state
string_state_allocs(q, c) ==
    LET top == parser_peek(q).top
        frame == q.data[top]
        known == escape_known(c)
    IN  CASE frame.state = "STRING_STATE_BASE" /\ c = chr.backslash -> <<>>
          [] frame.state = "STRING_STATE_BASE" /\ c = chr.dquote ->
               <<AllocPoint("gst_buffer_to_string", {}, q),
                 AllocPoint("gst_array", {Local("x")}, q),
                 AllocPoint("gst_load_cstring",
                            {Local("x"), Local("array")}, q),
                 AllocPoint("gst_array_push",
                            {Local("x"), Local("array"), Local("quote")}, q),
                 AllocPoint("gst_array_push",
                            {Local("x"), Local("array")}, q)>>
               \o parser_append_allocs(parser_pop(q), {Local("array")})
          [] frame.state = "STRING_STATE_BASE" /\ c # chr.backslash
                                               /\ c # chr.dquote ->
               <<AllocPoint("gst_buffer_push", {}, q)>>
          [] frame.state = "STRING_STATE_ESCAPE" /\ known ->
               <<AllocPoint("gst_buffer_push", {}, q)>>
          [] OTHER -> <<>>

\* root_state
root_state_allocs(q, c, junk) ==
    IF IsCloser(c) THEN <<>>
    ELSE IF c = chr.lparen \/ c = chr.lbracket \/ c = chr.lbrace
    THEN parser_push_allocs(q, "PTYPE_FORM", c, junk)
    ELSE IF c = chr.dquote
    THEN parser_push_allocs(q, "PTYPE_STRING", c, junk)
    ELSE IF is_whitespace(c) THEN <<>>
    ELSE IF is_symbol_char(c)
    THEN parser_push_allocs(q, "PTYPE_TOKEN", c, junk)
    ELSE <<>>

\* form_state: array is read from the top frame, the frame is popped, and
\* then parser_append runs.
form_state_allocs(q, c, junk) ==
    LET top == parser_peek(q).top
    IN  IF closes_form(q.data[top], c)
        THEN parser_append_allocs(parser_pop(q), {FrameArray(top)})
        ELSE root_state_allocs(q, c, junk)

\* dispatch_char: the allocation points of every handler the byte goes
\* through, in order.
RECURSIVE dispatch_char_allocs(_, _, _, _)
dispatch_char_allocs(q, c, done, junk) ==
    IF ~done /\ q.status = "GST_PARSER_PENDING" /\ q.count > 0
    THEN LET type == q.data[q.count].type
             r == frame_handler(q, c, junk)
         IN  (CASE type = "PTYPE_ROOT" -> root_state_allocs(q, c, junk)
                [] type = "PTYPE_TOKEN" -> token_state_allocs(q, c)
                [] type = "PTYPE_FORM" -> form_state_allocs(q, c, junk)
                [] type = "PTYPE_STRING" -> string_state_allocs(q, c))
             \o dispatch_char_allocs(r.p, c, r.done, junk)
    ELSE <<>>

\* C12: GC-root safety.  At every allocation point of the dispatch of a
\* byte, every buffer, array and string the code still uses is reachable
\* from the frames on the stack; none is held only in a local variable or
\* only in a frame that has been popped.
RootsHoldAccumulators ==
    [][ ByteStep =>
          LET points == dispatch_char_allocs(p, Byte, FALSE, NoFrame)
          IN  \A k \in DOMAIN points :
                  points[k].live \subseteq points[k].rooted ]_vars

\* C13: parser_push leaves every frame already on the stack as it was and
\* adds one frame on top, also when it finds count >= cap.  A byte that
\* makes the stack one frame higher has caused one push and no pop.
PushKeepsFrames ==
    [][ (ByteStep /\ p'.count = p.count + 1)
        => SubSeq(p'.data, 1, p.count) = p.data ]_vars

(***************************************************************************)
(* The end of a token inside a form.                                       *)
(***************************************************************************)
\* The top frame is a Token, the frame under it a Form, and the bytes of
\* the token classify without an error.
TokenInForm ==
    /\ ByteStep
    /\ Top.type = "PTYPE_TOKEN"
    /\ p.count >= 3
    /\ p.data[p.count - 1].type = "PTYPE_FORM"
    /\ build_token(p, Top.buffer).p.status = "GST_PARSER_PENDING"

\* The stack once the token is popped and its value appended to the form.
FormWithToken ==
    [SubSeq(p.data, 1, p.count - 1) EXCEPT
       ![p.count - 1].array = Append(@, build_token(p, Top.buffer).x)]

\* A closing delimiter: the form sees the byte with the token already among
\* its items; it closes when the byte is its delimiter and refuses it
\* otherwise.  Either way the byte is counted once.
CloserRedispatched ==
    (TokenInForm /\ IsCloser(Byte)) =>
        /\ p'.index = p.index + 1
        /\ IF Byte = p.data[p.count - 1].endDelimiter
           THEN LET x == GstArray(FormWithToken[p.count - 1].array)
                IN  /\ p'.count = p.count - 2
                    /\ IF p.data[p.count - 2].type = "PTYPE_ROOT"
                       THEN Complete' /\ p'.value = x
                       ELSE /\ Pending'
                            /\ p'.data[p.count - 2].array =
                                  Append(p.data[p.count - 2].array, x)
           ELSE /\ Failed'
                /\ p'.error = UNEXPECTED_CLOSING_DELIM
                /\ p'.data = FormWithToken

\* Whitespace or a comma: the token consumes the byte, the form stays open
\* with the token as its last item.
BlankEndsToken ==
    (TokenInForm /\ is_whitespace(Byte)) =>
        /\ Pending'
        /\ p'.index = p.index + 1
        /\ p'.count = p.count - 1
        /\ p'.data = FormWithToken

\* "(a)" is Complete after its third byte, with a Sequence of one item.
OneItemForm ==
    (firstRun /\ fed = <<chr.lparen, chr.a, chr.rparen>>) =>
        /\ Complete
        /\ p.index = Len(fed)
        /\ p.value = GstArray(<<GstString(<<chr.a>>)>>)

\* C14: redispatch ordering.  When a Token frame inside a Form receives a
\* closing delimiter the token is popped, classified and appended to the
\* form first, and then the same byte goes to the Form frame, which closes
\* on it if it matches; whitespace or a comma is consumed by the token and
\* the form stays open.  So "(a)" completes after 3 bytes with a Sequence
\* of one item.
RedispatchOrdering ==
    [][CloserRedispatched /\ BlankEndsToken]_vars /\ []OneItemForm

\* "(a)" read to the end.
RedispatchWitness ==
    /\ firstRun
    /\ Complete
    /\ fed = <<chr.lparen, chr.a, chr.rparen>>
    /\ Len(p.value.array) = 1

(***************************************************************************)
(* Every byte after a token: the parser has been fed a token, at the root  *)
(* or inside a form, and the caller passes one more byte, any byte a C     *)
(* string can hold.                                                        *)
(***************************************************************************)
Bytes == 1..255

InitSymbol ==
    \E opening \in Openings, token \in Pieces :
        LET r == gst_parse_cstring(gst_parser, opening \o token, NoFrame)
        IN  /\ p = r.p
            /\ fed = opening \o token
            /\ total = r.bytesRead
            /\ firstRun = TRUE
            /\ room = 1

NextSymbol == \E c \in Bytes : Feed(<<c>>)

SpecSymbol == InitSymbol /\ [][NextSymbol]_vars

\* The byte classes as the grammar lists them: the bytes that end a token
\* and the symbol-constituent bytes.
Terminators ==
    {chr.space, chr.tab, chr.lf, chr.cr, chr.comma,
     chr.rparen, chr.rbracket, chr.rbrace}

SymbolBytes ==
    (chr.a..chr.z) \cup (chr.A..chr.Z) \cup (chr.d0..chr.colon)
        \cup (chr.lt..chr.at) \cup (chr.star..chr.slash)
        \cup (chr.hash..chr.amp)
        \cup {chr.underscore, chr.caret, chr.bang}

\* '(', '[', '{', '"', ';', '`' and '\'': ';' is the byte after ':' and
\* '`' the byte before 'a'.
NotInSymbols ==
    {chr.lparen, chr.lbracket, chr.lbrace, chr.dquote, chr.colon + 1,
     chr.a - 1, chr.squote}

InToken == ByteStep /\ Top.type = "PTYPE_TOKEN"

TokenRejectsByte ==
    (InToken /\ (Byte \in NotInSymbols
                    \/ Byte \notin (Terminators \cup SymbolBytes)))
    => /\ Failed'
       /\ p'.error = "Expected symbol character."
       /\ p'.data = p.data

\* A comma ends the token: the Token frame is popped, the byte is consumed
\* and the frame under the token is on top.
CommaEndsToken ==
    (InToken /\ Byte = chr.comma)
    => /\ p'.count = p.count - 1
       /\ p'.index = p.index + 1
       /\ \A j \in 1..p'.count : p'.data[j].type # "PTYPE_TOKEN"

\* The bytes of a token in progress are symbol-constituent bytes; a comma
\* is none of them.
TokenHoldsSymbols ==
    \A j \in 1..p.count :
        p.data[j].type = "PTYPE_TOKEN" =>
            \A k \in 1..Len(p.data[j].buffer) :
                /\ p.data[j].buffer[k] \in SymbolBytes
                /\ p.data[j].buffer[k] # chr.comma

\* C15: while the top frame is a Token, a byte that is neither a token
\* terminator nor a symbol-constituent byte sets status Error with
\* "Expected symbol character."; '(', '[', '{', '"', ';', '`' and '\''
\* after token bytes are such bytes and start no form or string; a comma
\* always ends the token and is never one of its bytes.
TokenRejectsNonSymbol ==
    [][TokenRejectsByte /\ CommaEndsToken]_vars /\ []TokenHoldsSymbols

\* A token followed by ';'.
TokenRejectsWitness ==
    /\ Failed
    /\ p.error = "Expected symbol character."
    /\ Top.type = "PTYPE_TOKEN"
    /\ fed[Len(fed)] = chr.colon + 1

(***************************************************************************)
(* Every byte inside a string literal: the parser has been fed the start   *)
(* of a literal, at the root or inside a form, with or without a pending   *)
(* backslash, and the caller passes one more byte.                         *)
(***************************************************************************)
Literals ==
    { <<chr.dquote>>, <<chr.dquote, chr.backslash>>,
      <<chr.dquote, chr.a>>, <<chr.dquote, chr.a, chr.backslash>>,
      <<chr.dquote, chr.backslash, chr.n>>,
      <<chr.dquote, chr.backslash, chr.dquote, chr.backslash>> }

InitEscape ==
    \E opening \in Openings, literal \in Literals :
        LET r == gst_parse_cstring(gst_parser, opening \o literal, NoFrame)
        IN  /\ p = r.p
            /\ fed = opening \o literal
            /\ total = r.bytesRead
            /\ firstRun = TRUE
            /\ room = 1

SpecEscape == InitEscape /\ [][NextSymbol]_vars

\* The byte after a backslash is one of the eight escapes: the byte it
\* stands for is appended and the sub-state is Base again.
EscapeResolved ==
    (InString("STRING_STATE_ESCAPE") /\ Byte \in DOMAIN Escapes)
    => /\ Pending'
       /\ p'.count = p.count
       /\ p'.data[p.count].buffer = Append(Top.buffer, Escapes[Byte])
       /\ p'.data[p.count].state = "STRING_STATE_BASE"

\* Any other byte after a backslash: the error, and the buffer is as it was.
EscapeRejected ==
    (InString("STRING_STATE_ESCAPE") /\ Byte \notin DOMAIN Escapes)
    => /\ Failed'
       /\ p'.error = "Unknown string escape sequence."
       /\ p'.count = p.count
       /\ p'.data[p.count].buffer = Top.buffer

\* The sub-state of every String frame is Base or Escape.
SubStateIsBaseOrEscape ==
    \A j \in 1..p.count :
        p.data[j].type = "PTYPE_STRING" =>
            p.data[j].state \in {"STRING_STATE_BASE", "STRING_STATE_ESCAPE"}

\* C16: the Escape sub-state of a String frame lasts exactly one byte.
\* The byte after a backslash is one of n, r, t, f, 0, '"', '\'', z, and
\* then one resolved byte is appended and the sub-state is Base again, or
\* it sets status Error with "Unknown string escape sequence." and leaves
\* the buffer unchanged; the sub-state is never EscapeHex or EscapeUnicode.
EscapeLastsOneByte ==
    [][EscapeResolved /\ EscapeRejected]_vars /\ []SubStateIsBaseOrEscape

\* A literal with one byte, a backslash and then 'z': the buffer holds the
\* byte and the NUL the escape stands for.
EscapeWitness ==
    /\ Pending
    /\ Top.type = "PTYPE_STRING"
    /\ Top.state = "STRING_STATE_BASE"
    /\ Top.buffer = <<chr.a, chr.nul>>
    /\ fed[Len(fed)] = chr.z

\* C17: the internal errors are unreachable.  Whatever bytes a fresh
\* parser is fed, parser_append finds a Root or Form frame on top and
\* parser_peek and parser_pop find the stack not empty: the messages
\* "Expected container type." and "parser stack underflow" are never set.
NoInternalError ==
    firstRun =>
        p.error \notin {"Expected container type.", "parser stack underflow"}

(***************************************************************************)
(* The parser at the moment an error is recorded during the dispatch of    *)
(* the byte c, or at the end of the dispatch when none is.  Every call of  *)
(* p_error is the last thing its handler does, except the one inside       *)
(* build_token: token_state goes on to parser_append after it.             *)
(***************************************************************************)
RECURSIVE error_point(_, _, _)
error_point(q, c, junk) ==
    LET top == q.data[q.count]
        built == build_token(parser_pop(q), top.buffer)
        r == frame_handler(q, c, junk)
    IN  IF /\ top.type = "PTYPE_TOKEN"
           /\ is_whitespace(c) \/ IsCloser(c)
           /\ built.p.status = "GST_PARSER_ERROR"
        THEN built.p
        ELSE IF ~r.done /\ r.p.status = "GST_PARSER_PENDING" /\ r.p.count > 0
        THEN error_point(r.p, c, junk)
        ELSE r.p

\* C18: no byte is dispatched after the byte on which the status left
\* Pending.  When a byte records an error the call returns the count of
\* the bytes up to and including that byte, the status is Error, and the
\* stack, the accumulators and the value are what they were when the error
\* was recorded.
ErrorStopsParser ==
    [][ (ByteStep /\ error_point(p, Byte, NoFrame).status = "GST_PARSER_ERROR")
        => LET q == error_point(p, Byte, NoFrame)
           IN  /\ Failed'
               /\ p'.error = q.error
               /\ p'.count = q.count
               /\ p'.data = q.data
               /\ p'.value = q.value
               /\ total' = total + 1
               /\ p'.index = total' ]_vars

\* One call changes the index by the value it returns; a call that passes
\* one byte dispatches it (the status is Pending once the call has begun)
\* and the index grows by exactly 1, whatever the byte leads to.
IndexCountsBytes ==
    /\ p'.index >= p.index
    /\ p'.index - p.index = total' - total
    /\ Len(fed') = Len(fed) + 1 => p'.index = p.index + 1

\* C19: the byte counter.  Each dispatched byte increases p->index by
\* exactly 1, however many handlers the byte went through and whether it
\* ended in Complete or Error; the index never decreases, and after any
\* sequence of calls on one parser it equals the sum of the values that
\* gst_parse_cstring returned.
ByteCounter ==
    [][IndexCountsBytes]_vars /\ [](p.index = total)

\* "(a]" and the like: the closer ended the token, was handed to the form
\* and refused; it was counted once.
ByteCounterWitness ==
    /\ firstRun
    /\ Failed
    /\ p.error = UNEXPECTED_CLOSING_DELIM
    /\ Top.type = "PTYPE_FORM"
    /\ Len(Top.array) = 1
    /\ p.index = Len(fed)
    /\ fed[Len(fed) - 1] = chr.a

(***************************************************************************)
(* The number of handler invocations the loop of dispatch_char makes for   *)
(* the byte c.                                                             *)
(***************************************************************************)
RECURSIVE dispatch_char_calls(_, _, _, _)
dispatch_char_calls(q, c, done, junk) ==
    IF ~done /\ q.status = "GST_PARSER_PENDING" /\ q.count > 0
    THEN LET r == frame_handler(q, c, junk)
         IN  1 + dispatch_char_calls(r.p, c, r.done, junk)
    ELSE 0

\* The handler of the top frame declines the byte and leaves the parser
\* Pending: the byte starts a token, or it is a closing delimiter that
\* ends a token inside a form.
Declined ==
    \/ /\ Top.type \in {"PTYPE_ROOT", "PTYPE_FORM"}
       /\ Byte \in SymbolBytes \ {chr.comma}
    \/ /\ Top.type = "PTYPE_TOKEN"
       /\ IsCloser(Byte)
       /\ p.data[p.count - 1].type = "PTYPE_FORM"
       /\ build_token(p, Top.buffer).p.status = "GST_PARSER_PENDING"

\* C20: the dispatch of a byte terminates.  The loop of dispatch_char ends
\* with the byte consumed or the status no longer Pending after at most
\* two handler invocations: a second one happens exactly when the first
\* handler declined the byte, and the handler of the frame it left on top
\* consumes the byte or records an error.
DispatchTerminates ==
    [][ ByteStep =>
          LET calls == dispatch_char_calls(p, Byte, FALSE, NoFrame)
          IN  /\ calls \in {1, 2}
              /\ calls = 2 <=> Declined
              /\ \/ dispatch_loop(p, Byte, FALSE, NoFrame).done
                 \/ ~Pending' ]_vars

\* A token of one byte inside a form: its first byte was declined by the
\* Form frame, which pushed the Token frame, and consumed by the token.
DispatchWitness ==
    /\ firstRun
    /\ Pending
    /\ p.count >= 3
    /\ Top.type = "PTYPE_TOKEN"
    /\ Len(Top.buffer) = 1
    /\ p.data[p.count - 1].type = "PTYPE_FORM"
    /\ p.index = Len(fed)

====
